---- MODULE Spec2Model ----
(***************************************************************************)
(* Model of the client service: the five handlers of package handlers      *)
(* (CreateClient, GetClientByID, GetClients, UpdateClient, DeleteClient),   *)
(* the health route of the router, the two validators, and the clients      *)
(* table the handlers reach through the pgx pool.                           *)
(*                                                                          *)
(* Every handler decodes and validates request-local data and then issues   *)
(* at most one SQL statement, which the store executes atomically.  The     *)
(* handlers share nothing but the table, so concurrent requests are the     *)
(* interleavings of the handler actions below, ordered by their statement.  *)
(*                                                                          *)
(* Text that the code inspects character by character (phone, email, the    *)
(* limit and offset parameters) is a sequence of one-character strings;     *)
(* text the code only copies (id, name, messages) is a string.  A comment   *)
(* is its length in bytes, which is all the code reads of it.               *)
(***************************************************************************)
EXTENDS Integers, Sequences, FiniteSets, TLC

VARIABLES rows, before, req, resp, nextUUID, nextRid, deleted

vars == <<rows, before, req, resp, nextUUID, nextRid, deleted>>

(***************************************************************************)
(* Bounds of the model.                                                     *)
(***************************************************************************)
\* How many times uuid.New() is called in a run, hence the most rows ever stored.
MaxClients == 3

(***************************************************************************)
(* Constants of the program.                                                *)
(***************************************************************************)
MaxCommentLen == 255
DefaultLimit == 10
DefaultOffset == 0
PhoneMinDigits == 10
PhoneMaxDigits == 15
TldMinLetters == 2
StatusOK == 200
StatusCreated == 201
StatusBadRequest == 400
StatusNotFound == 404
StatusInternalServerError == 500

Min(a, b) == IF a < b THEN a ELSE b

\* A text of n copies of the character c.
Rep(c, n) == [i \in 1..n |-> c]

(***************************************************************************)
(* Character classes of the two regular expressions.                        *)
(***************************************************************************)
DigitSeq == <<"0", "1", "2", "3", "4", "5", "6", "7", "8", "9">>

Digit == {DigitSeq[i] : i \in 1..10}

Letter ==
    {"a", "b", "c", "d", "e", "f", "g", "h", "i", "j", "k", "l", "m",
     "n", "o", "p", "q", "r", "s", "t", "u", "v", "w", "x", "y", "z",
     "A", "B", "C", "D", "E", "F", "G", "H", "I", "J", "K", "L", "M",
     "N", "O", "P", "Q", "R", "S", "T", "U", "V", "W", "X", "Y", "Z"}

\* [a-zA-Z0-9._%+-]
LocalChar == Letter \cup Digit \cup {".", "_", "%", "+", "-"}

\* [a-zA-Z0-9.-]
DomainChar == Letter \cup Digit \cup {".", "-"}

AllIn(s, from, to, class) == \A i \in from..to : s[i] \in class

(***************************************************************************)
(* validatePhone: the whole text matches ^\+?\d{10,15}$                     *)
(***************************************************************************)
validatePhone(phone) ==
    LET digits == IF Len(phone) > 0 /\ phone[1] = "+" THEN Tail(phone) ELSE phone
    IN  /\ Len(digits) >= PhoneMinDigits
        /\ Len(digits) <= PhoneMaxDigits
        /\ AllIn(digits, 1, Len(digits), Digit)

(***************************************************************************)
(* validateEmail: the whole text matches                                    *)
(*   ^[a-zA-Z0-9._%+-]+@[a-zA-Z0-9.-]+\.[a-zA-Z]{2,}$                       *)
(* The match exists iff some "@" and some later "." split the text into a   *)
(* non-empty local part, a non-empty domain and a final label of letters.   *)
(***************************************************************************)
validateEmail(email) ==
    LET n == Len(email)
    IN  \E at \in 2..n : \E dot \in (at + 2)..n :
            /\ email[at] = "@"
            /\ email[dot] = "."
            /\ AllIn(email, 1, at - 1, LocalChar)
            /\ AllIn(email, at + 1, dot - 1, DomainChar)
            /\ n - dot >= TldMinLetters
            /\ AllIn(email, dot + 1, n, Letter)

(***************************************************************************)
(* strconv.Atoi on the texts the model feeds it: an optional sign, then one *)
(* or more decimal digits.  The inputs are short, so the range error of a   *)
(* value beyond the int width does not arise.                               *)
(***************************************************************************)
DigitVal(c) == (CHOOSE i \in 1..10 : DigitSeq[i] = c) - 1

RECURSIVE DecimalValue(_)
DecimalValue(digits) ==
    IF digits = <<>> THEN 0
    ELSE 10 * DecimalValue(SubSeq(digits, 1, Len(digits) - 1))
         + DigitVal(digits[Len(digits)])

Atoi(s) ==
    LET signed == Len(s) > 0 /\ s[1] \in {"+", "-"}
        digits == IF signed THEN Tail(s) ELSE s
    IN  IF digits = <<>> \/ ~AllIn(digits, 1, Len(digits), Digit)
        THEN [val |-> 0, err |-> TRUE]
        ELSE [val |-> IF signed /\ s[1] = "-"
                      THEN 0 - DecimalValue(digits)
                      ELSE DecimalValue(digits),
              err |-> FALSE]

(***************************************************************************)
(* The Client struct and the values a response carries.                     *)
(***************************************************************************)
\* The zero value of Client: what Decode leaves in a field the body omits.
ZeroClient ==
    [id |-> "", name |-> "", phone |-> <<>>, email |-> <<>>, comment |-> 0]

\* len(client.Comment)
len(comment) == comment

\* clients := []Client{} is an empty, non-nil slice, which json encodes as [];
\* a nil slice encodes as null.
EmptySlice == [nil |-> FALSE, elems |-> <<>>]

NilSlice == [nil |-> TRUE, elems |-> <<>>]

append(slice, client) == [nil |-> FALSE, elems |-> Append(slice.elems, client)]

\* The n-th value uuid.New().String() returns.  A version-4 UUID is random;
\* the model takes each call to return a text no earlier call returned and no
\* caller has seen, and does not model a collision.
UUID(n) == "uuid-" \o ToString(n)

\* An id no Create ever generated, as a caller may put in a path or a body.
ForeignID == "client-42"

NoFault == [kind |-> "none", at |-> 0]

\* http.Error(w, msg, status): a text response, no record.
Error(msg, status, storeOps) ==
    [status |-> status, msg |-> msg, kind |-> "text", client |-> ZeroClient,
     list |-> NilSlice, storeOps |-> storeOps]

\* w.WriteHeader(status) followed by json.NewEncoder(w).Encode(client).
EncodeClient(client, status, storeOps) ==
    [status |-> status, msg |-> "", kind |-> "client", client |-> client,
     list |-> NilSlice, storeOps |-> storeOps]

\* w.WriteHeader(200) followed by json.NewEncoder(w).Encode(clients).
EncodeClients(slice, storeOps) ==
    [status |-> StatusOK, msg |-> "", kind |-> "list", client |-> ZeroClient,
     list |-> slice, storeOps |-> storeOps]

\* w.WriteHeader(200) followed by w.Write(text).
WriteText(text, storeOps) ==
    [status |-> StatusOK, msg |-> text, kind |-> "text", client |-> ZeroClient,
     list |-> NilSlice, storeOps |-> storeOps]

(***************************************************************************)
(* The clients table.  A row is the five columns plus rid, the identity of  *)
(* the stored row itself, which no statement reads or writes.               *)
(***************************************************************************)
Ids(rws) == {r.id : r \in rws}

Matching(rws, id) == {r \in rws : r.id = id}

\* INSERT INTO clients (id, name, phone, email, comment) VALUES (...)
Insert(rws, client, rid) ==
    rws \cup {[rid |-> rid, id |-> client.id, name |-> client.name,
               phone |-> client.phone, email |-> client.email,
               comment |-> client.comment]}

\* UPDATE clients SET name, phone, email, comment WHERE id = $5, but inserting
\* the row when none matches.
UpdateRowsUpsert(rws, id, client) ==
    IF Matching(rws, id) = {}
    THEN Insert(rws, [client EXCEPT !.id = id], 0)
    ELSE {IF r.id = id
          THEN [r EXCEPT !.name = client.name, !.phone = client.phone,
                         !.email = client.email, !.comment = client.comment]
          ELSE r : r \in rws}

\* UPDATE clients SET name = $1, phone = $2, email = $3, comment = $4 WHERE id = $5
UpdateRows(rws, id, client) ==
    {IF r.id = id
     THEN [r EXCEPT !.name = client.name, !.phone = client.phone,
                    !.email = client.email, !.comment = client.comment]
     ELSE r : r \in rws}

\* A DELETE that removes nothing.
DeleteRowsKeep(rws, id) == rws

\* DELETE FROM clients WHERE id = $1
DeleteRows(rws, id) == {r \in rws : r.id # id}

\* cmdTag.RowsAffected() of an UPDATE or DELETE ... WHERE id = $n
RowsAffected(rws, id) == Cardinality(Matching(rws, id))

\* rows.Scan / Row.Scan into the five fields of a Client.
Scan(r) ==
    [id |-> r.id, name |-> r.name, phone |-> r.phone, email |-> r.email,
     comment |-> r.comment]

\* The orders in which a SELECT without ORDER BY may produce the table.
Orders(rws) ==
    {o \in [1..Cardinality(rws) -> rws] :
        \A i, j \in 1..Cardinality(rws) : o[i] = o[j] => i = j}

\* LIMIT $1 OFFSET $2 that skips nothing.
PageNoOffset(order, limit, offset) == SubSeq(order, 1, Min(limit, Len(order)))

\* LIMIT $1 OFFSET $2 applied to the table in the order the store produces it.
Page(order, limit, offset) ==
    SubSeq(order, offset + 1, Min(offset + limit, Len(order)))

(***************************************************************************)
(* CreateClient                                                             *)
(***************************************************************************)
\* Keeps the id of the body when the body has one.
AssignIDKeepSubmitted(client, fresh) ==
    IF client.id # "" THEN client ELSE [client EXCEPT !.id = fresh]

\* client.ID = uuid.New().String()
AssignID(client, fresh) == [client EXCEPT !.id = fresh]

\* Whether the handler gets as far as generating an id.
CreateReachesStore(body) ==
    /\ body.ok
    /\ validatePhone(body.client.phone)
    /\ validateEmail(body.client.email)
    /\ len(body.client.comment) <= MaxCommentLen

\* The handler, as a function of the request, the id uuid.New() returns,
\* the outcome of the store call and the table: the response and the table
\* afterwards.
CreateClient(body, fresh, rid, fault, rws) ==
    IF ~body.ok
    THEN [resp |-> Error("Invalid request body", StatusBadRequest, 0), rows |-> rws]
    ELSE IF ~validatePhone(body.client.phone) \/ ~validateEmail(body.client.email)
    THEN [resp |-> Error("Invalid phone or email format", StatusBadRequest, 0),
          rows |-> rws]
    ELSE IF len(body.client.comment) > MaxCommentLen
    THEN [resp |-> Error("Comment is too long", StatusBadRequest, 0), rows |-> rws]
    ELSE LET client == AssignID(body.client, fresh)
         IN  IF fault.kind # "none"
             THEN [resp |-> Error("Internal server error",
                                  StatusInternalServerError, 1),
                   rows |-> rws]
             ELSE [resp |-> EncodeClient(client, StatusCreated, 1),
                   rows |-> Insert(rws, client, rid)]

(***************************************************************************)
(* GetClientByID.  found is the row QueryRow(...).Scan reads when some row  *)
(* matches.                                                                 *)
(***************************************************************************)
GetClientByID(id, found, fault, rws) ==
    IF fault.kind # "none"
    THEN [resp |-> Error("Internal server error", StatusInternalServerError, 1),
          rows |-> rws]
    ELSE IF Matching(rws, id) = {}
    THEN [resp |-> Error("Client not found", StatusNotFound, 1), rows |-> rws]
    ELSE [resp |-> EncodeClient(Scan(found), StatusOK, 1), rows |-> rws]

(***************************************************************************)
(* GetClients                                                               *)
(***************************************************************************)
\* r.URL.Query().Get(key): the first value of the parameter, "" when the
\* query string does not have it.
Get(query, key) == IF query[key].present THEN query[key].val ELSE <<>>

\* Checks offset before limit.
ListParamsOffsetFirst(query) ==
    LET l == Get(query, "limit")
        o == Get(query, "offset")
        lv == Atoi(l)
        ov == Atoi(o)
    IN  IF o # <<>> /\ (ov.err \/ ov.val < 0)
        THEN [bad |-> "Invalid offset value", limit |-> DefaultLimit,
              offset |-> DefaultOffset]
        ELSE IF l # <<>> /\ (lv.err \/ lv.val < 0)
        THEN [bad |-> "Invalid limit value", limit |-> DefaultLimit,
              offset |-> DefaultOffset]
        ELSE [bad |-> "",
              limit |-> IF l # <<>> THEN lv.val ELSE DefaultLimit,
              offset |-> IF o # <<>> THEN ov.val ELSE DefaultOffset]

\* Lines 110-131: limit and offset, or the message of the 400.
ListParams(query) ==
    LET l == Get(query, "limit")
        o == Get(query, "offset")
        lv == Atoi(l)
        ov == Atoi(o)
    IN  IF l # <<>> /\ (lv.err \/ lv.val < 0)
        THEN [bad |-> "Invalid limit value", limit |-> DefaultLimit,
              offset |-> DefaultOffset]
        ELSE IF o # <<>> /\ (ov.err \/ ov.val < 0)
        THEN [bad |-> "Invalid offset value", limit |-> DefaultLimit,
              offset |-> DefaultOffset]
        ELSE [bad |-> "",
              limit |-> IF l # <<>> THEN lv.val ELSE DefaultLimit,
              offset |-> IF o # <<>> THEN ov.val ELSE DefaultOffset]

\* for rows.Next() { rows.Scan(...); clients = append(clients, client) }
\* over the result set, from its k-th row on.  rows.Next() returns false at
\* the end of the result set and also when reading it fails (fault "next",
\* after fault.at rows were read); the error is then in rows.Err(), which the
\* handler does not read.  Fault "scan" makes the Scan of row fault.at fail.
RECURSIVE RowsLoop(_, _, _, _)
RowsLoop(result, k, clients, fault) ==
    IF k > Len(result) \/ (fault.kind = "next" /\ fault.at < k)
    THEN [err |-> FALSE, clients |-> clients]
    ELSE IF fault.kind = "scan" /\ fault.at = k
    THEN [err |-> TRUE, clients |-> clients]
    ELSE RowsLoop(result, k + 1, append(clients, Scan(result[k])), fault)

\* order is the table in the order the store produces it for this query.
GetClients(query, order, fault, rws) ==
    LET p == ListParams(query)
    IN  IF p.bad # ""
        THEN [resp |-> Error(p.bad, StatusBadRequest, 0), rows |-> rws]
        ELSE IF fault.kind = "call"
        THEN [resp |-> Error("Internal server error",
                             StatusInternalServerError, 1),
              rows |-> rws]
        ELSE LET read == RowsLoop(Page(order, p.limit, p.offset), 1,
                                  EmptySlice, fault)
             IN  IF read.err
                 THEN [resp |-> Error("Internal server error",
                                      StatusInternalServerError, 1),
                       rows |-> rws]
                 ELSE [resp |-> EncodeClients(read.clients, 1), rows |-> rws]

(***************************************************************************)
(* UpdateClient                                                             *)
(***************************************************************************)
\* Leaves out the check of the comment's length.
UpdateChecksNoLength(client) ==
    IF ~validateEmail(client.email) THEN "Invalid email format"
    ELSE IF ~validatePhone(client.phone) THEN "Invalid phone format"
    ELSE ""

\* Checks the phone before the email.
UpdateChecksPhoneFirst(client) ==
    IF ~validatePhone(client.phone) THEN "Invalid phone format"
    ELSE IF ~validateEmail(client.email) THEN "Invalid email format"
    ELSE IF len(client.comment) > MaxCommentLen THEN "Comment is too long"
    ELSE ""

\* Lines 178-191: the message of the first check that fails, "" when none does.
UpdateChecks(client) ==
    IF ~validateEmail(client.email) THEN "Invalid email format"
    ELSE IF ~validatePhone(client.phone) THEN "Invalid phone format"
    ELSE IF len(client.comment) > MaxCommentLen THEN "Comment is too long"
    ELSE ""

UpdateReachesStore(body) == body.ok /\ UpdateChecks(body.client) = ""

\* The handler with the comment length checked only after the UPDATE ran.
UpdateClientLateCheck(id, body, fault, rws) ==
    IF ~body.ok
    THEN [resp |-> Error("Invalid request body", StatusBadRequest, 0), rows |-> rws]
    ELSE IF ~validateEmail(body.client.email)
    THEN [resp |-> Error("Invalid email format", StatusBadRequest, 0), rows |-> rws]
    ELSE IF ~validatePhone(body.client.phone)
    THEN [resp |-> Error("Invalid phone format", StatusBadRequest, 0), rows |-> rws]
    ELSE IF fault.kind # "none"
    THEN [resp |-> Error("Internal server error", StatusInternalServerError, 1),
          rows |-> rws]
    ELSE IF len(body.client.comment) > MaxCommentLen
    THEN [resp |-> Error("Comment is too long", StatusBadRequest, 1),
          rows |-> UpdateRows(rws, id, body.client)]
    ELSE IF RowsAffected(rws, id) = 0
    THEN [resp |-> Error("Client not found", StatusNotFound, 1), rows |-> rws]
    ELSE [resp |-> EncodeClient(body.client, StatusOK, 1),
          rows |-> UpdateRows(rws, id, body.client)]

\* id is ps.ByName("id").  The record encoded on success is the decoded body,
\* whose ID field the handler never assigns.
UpdateClient(id, body, fault, rws) ==
    IF ~body.ok
    THEN [resp |-> Error("Invalid request body", StatusBadRequest, 0), rows |-> rws]
    ELSE IF UpdateChecks(body.client) # ""
    THEN [resp |-> Error(UpdateChecks(body.client), StatusBadRequest, 0),
          rows |-> rws]
    ELSE IF fault.kind # "none"
    THEN [resp |-> Error("Internal server error", StatusInternalServerError, 1),
          rows |-> rws]
    ELSE IF RowsAffected(rws, id) = 0
    THEN [resp |-> Error("Client not found", StatusNotFound, 1),
          rows |-> UpdateRows(rws, id, body.client)]
    ELSE [resp |-> EncodeClient(body.client, StatusOK, 1),
          rows |-> UpdateRows(rws, id, body.client)]

(***************************************************************************)
(* DeleteClient                                                             *)
(***************************************************************************)
DeleteClient(id, fault, rws) ==
    IF fault.kind # "none"
    THEN [resp |-> Error("Internal server error", StatusInternalServerError, 1),
          rows |-> rws]
    ELSE IF RowsAffected(rws, id) = 0
    THEN [resp |-> Error("Client not found", StatusNotFound, 1),
          rows |-> DeleteRows(rws, id)]
    ELSE [resp |-> WriteText("Client deleted", 1), rows |-> DeleteRows(rws, id)]

(***************************************************************************)
(* The health route of InitRouter.                                          *)
(***************************************************************************)
HealthCheck(rws) == [resp |-> WriteText("Service is healthy", 0), rows |-> rws]

(***************************************************************************)
(* The requests the model sends.                                            *)
(***************************************************************************)
\* "+7777777777"
ValidPhone == <<"+">> \o Rep("7", PhoneMinDigits)

\* "123"
ShortPhone == <<"1", "2", "3">>

\* Sixteen digits.
LongPhone == Rep("7", PhoneMaxDigits + 1)

\* "ann@ex.io"
ValidEmail == <<"a", "n", "n", "@", "e", "x", ".", "i", "o">>

\* "ann@ex.i": the last label has one letter.
BadEmail == <<"a", "n", "n", "@", "e", "x", ".", "i">>

\* The ids a caller can name in a path: those generated so far, and one no
\* Create generated.
KnownIds == {UUID(i) : i \in 1..nextUUID} \cup {ForeignID}

\* The ids a body carries: none, one no Create generated, the one generated last.
BodyIds == {"", ForeignID} \cup (IF nextUUID > 0 THEN {UUID(nextUUID)} ELSE {})

\* A body that does not decode.
Undecodable == [ok |-> FALSE, client |-> ZeroClient]

Body(id, phone, email, comment) ==
    [ok |-> TRUE,
     client |-> [id |-> id, name |-> "Ann", phone |-> phone, email |-> email,
                 comment |-> comment]]

\* The body that does not decode; every combination of a valid or invalid
\* phone, a valid or invalid email and a comment that is empty or one byte
\* too long; a phone one digit too long; and the valid bodies, with each id
\* and with an empty comment or one of the greatest length accepted.
Bodies ==
    {Undecodable}
    \cup {Body("", p, e, c) : p \in {ValidPhone, ShortPhone},
                             e \in {ValidEmail, BadEmail},
                             c \in {0, MaxCommentLen + 1}}
    \cup {Body("", LongPhone, ValidEmail, 0)}
    \cup {Body(i, ValidPhone, ValidEmail, c) : i \in BodyIds, c \in {0, MaxCommentLen}}

\* One valid body.
PlainBodies == {Body("", ValidPhone, ValidEmail, 0)}

Absent == [present |-> FALSE, val |-> <<>>]

Given(text) == [present |-> TRUE, val |-> text]

Query(l, o) == [limit |-> l, offset |-> o]

NoQuery == Query(Absent, Absent)

\* limit is "abc" or "-1" with offset absent, "x" or "1"; limit is absent or
\* "2" with offset "x" or "-1".
BadQueries ==
    {Query(Given(l), o) : l \in {<<"a", "b", "c">>, <<"-", "1">>},
                          o \in {Absent, Given(<<"x">>), Given(<<"1">>)}}
    \cup {Query(l, Given(o)) : l \in {Absent, Given(<<"2">>)},
                               o \in {<<"x">>, <<"-", "1">>}}

\* limit absent or "2" with offset absent, "1" or "5"; and a parameter that
\* is there with an empty value: "limit=" alone, "offset=" alone, and
\* "limit=" with an offset that does not parse.
GoodQueries ==
    {Query(l, o) : l \in {Absent, Given(<<"2">>)},
                   o \in {Absent, Given(<<"1">>), Given(<<"5">>)}}
    \cup {Query(Given(<<>>), Absent), Query(Absent, Given(<<>>))}

Queries == BadQueries \cup GoodQueries \cup {Query(Given(<<>>), Given(<<"x">>))}

CallFault == [kind |-> "call", at |-> 0]

\* The outcomes of db.Exec and db.QueryRow(...).Scan: success, or an error.
CallFaults == {NoFault, CallFault}

\* The outcomes of db.Query and of reading its n rows: success, an error
\* returned by Query, a Scan that fails on a row, a read that fails after
\* some of the rows.
QueryFaults(n) ==
    CallFaults
    \cup {[kind |-> "scan", at |-> k] : k \in 1..n}
    \cup {[kind |-> "next", at |-> k] : k \in 0..n}

(***************************************************************************)
(* State.  rows is the clients table; nextUUID counts the calls of          *)
(* uuid.New(), nextRid the rows ever inserted.  The rest records the last   *)
(* request served, for the properties to read: req the request (with fresh, *)
(* the id generated for it, fault, the outcome of its store call, and gone, *)
(* whether an earlier Delete of its path id had returned 200), resp its     *)
(* response, before the table when it arrived, deleted the ids whose Delete *)
(* returned 200.                                                            *)
(***************************************************************************)
NoResponse ==
    [status |-> 0, msg |-> "", kind |-> "none", client |-> ZeroClient,
     list |-> NilSlice, storeOps |-> 0]

Request(op, id, body, query, fault, fresh) ==
    [op |-> op, id |-> id, body |-> body, query |-> query, fault |-> fault,
     fresh |-> fresh, gone |-> id \in deleted]

Init ==
    /\ rows = {}
    /\ before = {}
    /\ req = [op |-> "none", id |-> "", body |-> Undecodable, query |-> NoQuery,
              fault |-> NoFault, fresh |-> "", gone |-> FALSE]
    /\ resp = NoResponse
    /\ nextUUID = 0
    /\ nextRid = 0
    /\ deleted = {}

Serve(request, out) ==
    /\ req' = request
    /\ resp' = out.resp
    /\ rows' = out.rows
    /\ before' = rows

\* POST /clients
Create(bodies) ==
    \E body \in bodies :
        IF CreateReachesStore(body)
        THEN /\ nextUUID < MaxClients
             /\ \E fault \in CallFaults :
                    LET out == CreateClient(body, UUID(nextUUID + 1), nextRid + 1,
                                            fault, rows)
                    IN  /\ Serve(Request("create", "", body, NoQuery, fault,
                                         UUID(nextUUID + 1)), out)
                        /\ nextUUID' = nextUUID + 1
                        /\ nextRid' = IF out.rows # rows THEN nextRid + 1 ELSE nextRid
                        /\ UNCHANGED deleted
        ELSE /\ Serve(Request("create", "", body, NoQuery, NoFault, ""),
                      CreateClient(body, "", 0, NoFault, rows))
             /\ UNCHANGED <<nextUUID, nextRid, deleted>>

\* GET /clients/:id
GetByID ==
    \E id \in KnownIds : \E fault \in CallFaults :
        \E found \in IF Matching(rows, id) = {} THEN {ZeroClient} ELSE Matching(rows, id) :
            /\ Serve(Request("get", id, Undecodable, NoQuery, fault, ""),
                     GetClientByID(id, found, fault, rows))
            /\ UNCHANGED <<nextUUID, nextRid, deleted>>

\* GET /clients
List(queries) ==
    \E query \in queries :
        IF ListParams(query).bad # ""
        THEN /\ Serve(Request("list", "", Undecodable, query, NoFault, ""),
                      GetClients(query, <<>>, NoFault, rows))
             /\ UNCHANGED <<nextUUID, nextRid, deleted>>
        ELSE \E order \in Orders(rows) :
                LET p == ListParams(query)
                    n == Len(Page(order, p.limit, p.offset))
                IN  \E fault \in QueryFaults(n) :
                        /\ Serve(Request("list", "", Undecodable, query, fault, ""),
                                 GetClients(query, order, fault, rows))
                        /\ UNCHANGED <<nextUUID, nextRid, deleted>>

\* PUT /clients/:id
Update(bodies) ==
    \E id \in KnownIds : \E body \in bodies :
        \E fault \in IF UpdateReachesStore(body) THEN CallFaults ELSE {NoFault} :
            /\ Serve(Request("update", id, body, NoQuery, fault, ""),
                     UpdateClient(id, body, fault, rows))
            /\ UNCHANGED <<nextUUID, nextRid, deleted>>

\* DELETE /clients/:id
Delete ==
    \E id \in KnownIds : \E fault \in CallFaults :
        LET out == DeleteClient(id, fault, rows)
        IN  /\ Serve(Request("delete", id, Undecodable, NoQuery, fault, ""), out)
            /\ deleted' = IF out.resp.status = StatusOK
                          THEN deleted \cup {id} ELSE deleted
            /\ UNCHANGED <<nextUUID, nextRid>>

\* GET /
Health ==
    /\ Serve(Request("health", "", Undecodable, NoQuery, NoFault, ""),
             HealthCheck(rows))
    /\ UNCHANGED <<nextUUID, nextRid, deleted>>

(***************************************************************************)
(* Spec: the handlers that write, read by id and reject, on every body of   *)
(* Bodies; List is sent the queries it rejects.                             *)
(* SpecList: List on every query of Queries, over the tables that Create    *)
(* and Delete build.                                                        *)
(***************************************************************************)
Next ==
    \/ Create(Bodies)
    \/ GetByID
    \/ List(BadQueries)
    \/ Update(Bodies)
    \/ Delete
    \/ Health

Spec == Init /\ [][Next]_vars

NextList ==
    \/ Create(PlainBodies)
    \/ Delete
    \/ List(Queries)

SpecList == Init /\ [][NextList]_vars

(***************************************************************************)
(* Properties.  Each reads the last request served (req), its response      *)
(* (resp), the table when it arrived (before) and the table now (rows).     *)
(***************************************************************************)
Served(op) == req.op = op

StoreOK == req.fault = NoFault

\* C1: a Create whose body decodes and validates and whose insert succeeds
\* is answered 201 with the generated id, which is not empty and is not the
\* id of the body; the one row it inserts has the generated id.
C1_CreateGeneratesId ==
    (Served("create") /\ CreateReachesStore(req.body) /\ StoreOK) =>
        /\ resp.status = StatusCreated
        /\ resp.kind = "client"
        /\ resp.client.id = req.fresh
        /\ resp.client.id # ""
        /\ resp.client.id # req.body.client.id
        /\ Cardinality(rows \ before) = 1
        /\ \A r \in rows \ before :
               r.id = resp.client.id /\ r.id # req.body.client.id

\* A Create that carried an id of its own was answered 201.
C1_Witness ==
    /\ Served("create")
    /\ resp.status = StatusCreated
    /\ req.body.client.id = ForeignID

\* C2: a Create, Update or List answered 400 issued no store operation and
\* left the table as it was; a Create with phone "123" is answered 400, and
\* no row of the table has that phone.
C2_RejectedBeforeStore ==
    /\ (resp.status = StatusBadRequest /\ req.op \in {"create", "update", "list"}) =>
           (resp.storeOps = 0 /\ rows = before)
    /\ (Served("create") /\ req.body.ok /\ req.body.client.phone = ShortPhone) =>
           resp.status = StatusBadRequest
    /\ \A r \in rows : r.phone # ShortPhone

\* An Update of a stored row was answered 400 for its comment alone.
C2_Witness ==
    /\ Served("update")
    /\ resp.status = StatusBadRequest
    /\ resp.msg = "Comment is too long"
    /\ req.id \in Ids(rows)

\* C3: an Update that succeeds is answered 200 with a record whose id is the
\* id of the path.
C3_UpdateReturnsPathId ==
    (Served("update") /\ resp.status = StatusOK) => resp.client.id = req.id

\* C4: with no store failure, a Delete of a stored id is answered 200 and
\* removes it; after that a Get of the id is answered 404, and a Delete of it
\* is answered 404 and leaves the table as it was.
C4_DeleteThenGone ==
    /\ (Served("delete") /\ StoreOK /\ req.id \in Ids(before)) =>
           (resp.status = StatusOK /\ req.id \notin Ids(rows))
    /\ (Served("get") /\ StoreOK /\ req.gone) => resp.status = StatusNotFound
    /\ (Served("delete") /\ StoreOK /\ req.gone) =>
           (resp.status = StatusNotFound /\ rows = before)

\* A second Delete of an id, with other rows in the table.
C4_Witness ==
    /\ Served("delete")
    /\ StoreOK
    /\ req.gone
    /\ resp.status = StatusNotFound
    /\ rows # {}

\* C5: with no store failure, an Update with a valid body of an id no row
\* has is answered 404 and leaves the table as it was.
C5_UpdateMissingIs404 ==
    (Served("update") /\ UpdateReachesStore(req.body) /\ StoreOK
        /\ req.id \notin Ids(before)) =>
        (resp.status = StatusNotFound /\ rows = before)

\* An Update of an id no row has, with a valid body and rows in the table.
C5_Witness ==
    /\ Served("update")
    /\ UpdateReachesStore(req.body)
    /\ StoreOK
    /\ req.id \notin Ids(before)
    /\ resp.status = StatusNotFound
    /\ rows # {}

\* C8: in an Update whose body decodes, an invalid email gives the email
\* error whatever the rest; a valid email with an invalid phone gives the
\* phone error whatever the comment; the comment error is given exactly when
\* email and phone are valid and the comment is too long.
C8_UpdateCheckOrder ==
    (Served("update") /\ req.body.ok) =>
        LET c == req.body.client
            rejected(msg) == resp.status = StatusBadRequest /\ resp.msg = msg
        IN  /\ ~validateEmail(c.email) => rejected("Invalid email format")
            /\ (validateEmail(c.email) /\ ~validatePhone(c.phone)) =>
                   rejected("Invalid phone format")
            /\ (validateEmail(c.email) /\ validatePhone(c.phone)
                    /\ len(c.comment) > MaxCommentLen) =>
                   rejected("Comment is too long")
            /\ resp.msg = "Comment is too long" =>
                   (validateEmail(c.email) /\ validatePhone(c.phone))

\* An Update with all three fields invalid was answered with the email error.
C8_Witness ==
    /\ Served("update")
    /\ req.body.ok
    /\ ~validateEmail(req.body.client.email)
    /\ ~validatePhone(req.body.client.phone)
    /\ len(req.body.client.comment) > MaxCommentLen
    /\ resp.msg = "Invalid email format"

\* C10: every row of the table has a non-empty id that no other row has, a
\* phone and an email that match their patterns and a comment of at most 255
\* bytes; and a row that a request leaves in the table keeps its id.
C10_RowsValid ==
    /\ \A r \in rows :
           /\ r.id # ""
           /\ validatePhone(r.phone)
           /\ validateEmail(r.email)
           /\ len(r.comment) <= MaxCommentLen
    /\ \A r1, r2 \in rows : r1.id = r2.id => r1 = r2
    /\ \A r1 \in before : \A r2 \in rows : r1.rid = r2.rid => r1.id = r2.id

\* An Update changed a row of a table of several rows.
C10_Witness ==
    /\ Served("update")
    /\ resp.status = StatusOK
    /\ rows # before
    /\ Cardinality(rows) >= 2

Max(a, b) == IF a > b THEN a ELSE b

\* The parameters of the last List, as the handler reads them.
Params == ListParams(req.query)

\* C6: with no store failure, a List with valid limit L and offset O over a
\* table of n rows is answered 200 with an array, not null, of exactly
\* min(L, max(0, n - O)) records, each a row of the table, none twice.
C6_ListPageSize ==
    (Served("list") /\ Params.bad = "" /\ StoreOK) =>
        LET elems == resp.list.elems
        IN  /\ resp.status = StatusOK
            /\ resp.kind = "list"
            /\ ~resp.list.nil
            /\ Len(elems) = Min(Params.limit,
                                Max(0, Cardinality(rows) - Params.offset))
            /\ \A i \in 1..Len(elems) : elems[i] \in {Scan(r) : r \in rows}
            /\ \A i, j \in 1..Len(elems) : elems[i] = elems[j] => i = j

\* limit=2 with offset=1 over three rows returned two records.
C6_Witness ==
    /\ Served("list")
    /\ StoreOK
    /\ Cardinality(rows) = 3
    /\ req.query = Query(Given(<<"2">>), Given(<<"1">>))
    /\ Len(resp.list.elems) = 2

\* Whether a parameter's text parses as a non-negative integer.
NonNegative(text) == ~Atoi(text).err /\ Atoi(text).val >= 0

\* C7, as claimed: limit is 10 and offset 0 when the parameter is absent; a
\* parameter that is present and does not parse as a non-negative integer is
\* answered 400 with a message naming it, limit when both are invalid.
C7_PresentMustParse ==
    Served("list") =>
        LET q == req.query
            badLimit == q.limit.present /\ ~NonNegative(q.limit.val)
            badOffset == q.offset.present /\ ~NonNegative(q.offset.val)
        IN  /\ (~q.limit.present /\ Params.bad = "") => Params.limit = DefaultLimit
            /\ (~q.offset.present /\ Params.bad = "") => Params.offset = DefaultOffset
            /\ badLimit =>
                   (resp.status = StatusBadRequest /\ resp.msg = "Invalid limit value")
            /\ (badOffset /\ ~badLimit) =>
                   (resp.status = StatusBadRequest /\ resp.msg = "Invalid offset value")

\* C7, amended: limit is 10 and offset 0 when the parameter is absent or
\* present with an empty value; a parameter with a non-empty value that does
\* not parse as a non-negative integer is answered 400 with a message naming
\* it, limit when both are invalid; and no other List is answered 400.
C7_NonEmptyMustParse ==
    Served("list") =>
        LET l == Get(req.query, "limit")
            o == Get(req.query, "offset")
            badLimit == l # <<>> /\ ~NonNegative(l)
            badOffset == o # <<>> /\ ~NonNegative(o)
        IN  /\ (l = <<>> /\ Params.bad = "") => Params.limit = DefaultLimit
            /\ (o = <<>> /\ Params.bad = "") => Params.offset = DefaultOffset
            /\ (l # <<>> /\ ~badLimit /\ Params.bad = "") => Params.limit = Atoi(l).val
            /\ (o # <<>> /\ ~badOffset /\ Params.bad = "") => Params.offset = Atoi(o).val
            /\ badLimit =>
                   (resp.status = StatusBadRequest /\ resp.msg = "Invalid limit value")
            /\ (badOffset /\ ~badLimit) =>
                   (resp.status = StatusBadRequest /\ resp.msg = "Invalid offset value")
            /\ resp.status = StatusBadRequest => (badLimit \/ badOffset)

\* A List with "limit=" and an offset that does not parse was answered 400
\* naming offset.
C7_Witness ==
    /\ Served("list")
    /\ req.query = Query(Given(<<>>), Given(<<"x">>))
    /\ resp.status = StatusBadRequest
    /\ resp.msg = "Invalid offset value"

\* C9: a request whose store operation fails is answered 500 with the
\* generic message.
C9_StoreFailureIs500 ==
    ~StoreOK =>
        (resp.status = StatusInternalServerError
            /\ resp.msg = "Internal server error")

====
